---- MODULE Spec2Model ----
(***************************************************************************)
(* Syllabus tracker: per-center progress sheets are merged into the master *)
(* sheet Central_Weekly_Progress, and an audit lists the batches with no   *)
(* master row for a week.  Two variants of the application are modelled:   *)
(* app1.py and app2.py.  The workbook is a function from sheet title to    *)
(* the data rows of that sheet (the header row is not stored); a row is a  *)
(* sequence of text cells.                                                 *)
(***************************************************************************)
EXTENDS Integers, Sequences, FiniteSets, TLC

VARIABLES
  variant,            \* which application runs: "app1" or "app2"
  sheets,             \* the workbook Syllabus_DB: title -> data rows
  now,                \* the wall clock, in seconds (datetime.now())
  masterCache,        \* app2: st.cache_data entry of fetch_worksheet_data for the master sheet
  missing_batches,    \* st.session_state.missing_batches
  last_checked_week,  \* the week number of the last audit (0: none yet)
  lastOp,             \* the handler that ran last: "submit", "merge", "remerge" (a merge
                      \* right after a merge), "merge_fault", "merge_write" (the write of
                      \* a run taken store call by store call), "audit", "notify",
                      \* "clear", "login"; "init" before the first one
  lastRun,            \* the last handler's input and outcome: the form it was given, the
                      \* store call that failed in it, what it returned, the messages shown
  runs,               \* the merge runs in progress, one per browser session
  notified_batches,   \* st.session_state.notified_batches
  call,               \* the notify_via_gas call in progress and its retry loop
  last_notified_time, \* st.session_state.last_notified_time: batch id -> time of the click
  page,               \* st.session_state.page: "Home", "Update" or "Admin"
  logged_in,          \* st.session_state.logged_in
  show_login_form     \* st.session_state.show_login_form

vars == <<variant, sheets, now, masterCache, missing_batches, last_checked_week, lastOp,
          lastRun, runs, notified_batches, call, last_notified_time,
          page, logged_in, show_login_form>>

\* the page shown and the login state of app1.py
login == <<page, logged_in, show_login_form>>

-----------------------------------------------------------------------------
(* Bounds of the model *)

MaxRows == 2    \* submit is offered while the progress sheets hold fewer data rows in all
MaxClock == 1   \* the clock stops ticking here
MaxMaster == 2  \* a merge with a failing store call is offered while master holds fewer rows
MaxPending == 2 \* a notification is offered while PendingEmails holds fewer rows

-----------------------------------------------------------------------------
(* Program constants *)

SHEET_CENTERS == "Centers"
SHEET_BATCHES == "Batches"
SHEET_MASTER_PROGRESS == "Central_Weekly_Progress"
PROGRESS_SHEET_SUFFIX == "_Progress"

IDX_CENTER_COUNTRY == 1
IDX_CENTER_NAME == 2
IDX_CENTER_EMAIL == 3
IDX_BATCH_CENTER == 1
IDX_BATCH_ID == 2
IDX_MASTER_CENTER == 2
IDX_MASTER_BATCH_ID == 3
IDX_MASTER_SUBJECT == 4
IDX_MASTER_WEEK == 5

Variants == {"app1", "app2"}

-----------------------------------------------------------------------------
(* Python helpers *)

\* row[idx] with a 0-based index
Cell(row, idx) == row[idx + 1]

\* max(...) of a non-empty set of integers
MaxOf(S) == CHOOSE m \in S : \A x \in S : x <= m

\* s.endswith(suffix)
EndsWith(s, suffix) ==
  /\ Len(s) >= Len(suffix)
  /\ SubSeq(s, Len(s) - Len(suffix) + 1, Len(s)) = suffix

RECURSIVE LStrip(_)
LStrip(s) == IF Len(s) > 0 /\ SubSeq(s, 1, 1) = " " THEN LStrip(SubSeq(s, 2, Len(s))) ELSE s

RECURSIVE RStrip(_)
RStrip(s) == IF Len(s) > 0 /\ SubSeq(s, Len(s), Len(s)) = " " THEN RStrip(SubSeq(s, 1, Len(s) - 1)) ELSE s

\* s.strip()
Strip(s) == RStrip(LStrip(s))

\* sep.join(parts)
RECURSIVE Join(_, _)
Join(sep, parts) ==
  IF Len(parts) = 0 THEN ""
  ELSE IF Len(parts) = 1 THEN parts[1]
  ELSE parts[1] \o sep \o Join(sep, Tail(parts))

\* str(n) of a week number
Str(n) == ToString(n)

\* datetime.now().strftime(...): the text of a clock value
Timestamp(t) == "T" \o ToString(t)

\* {row[k]: row[v] for row in rows if len(row) > minIdx}.get(key, default):
\* a later row overwrites an earlier one with the same key
DictGet(rows, k, v, minIdx, key, default) ==
  LET hits == {i \in 1..Len(rows) : Len(rows[i]) > minIdx /\ Cell(rows[i], k) = key}
  IN IF hits = {} THEN default ELSE Cell(rows[MaxOf(hits)], v)

-----------------------------------------------------------------------------
(* The workbook *)

\* sheet.worksheets(): the titles in workbook order
Worksheets ==
  <<"Centers", "Batches", "Central_Weekly_Progress", "Alpha_Progress", "Beta_Progress",
    "PendingEmails">>

Titles == {Worksheets[i] : i \in 1..Len(Worksheets)}

\* Centers: [id, country, center, email].  Gamma has an empty email cell and no
\* progress sheet; Beta has a progress sheet and no Centers row.
CentersData ==
  << <<"1", "CountryX", "Alpha", "alpha@x.org">>,
     <<"3", "CountryZ", "Gamma", "">> >>

\* Batches: [country, center, batch_id, start, end, subjects]; the last row is short
BatchesData ==
  << <<"CountryX", "Alpha", "B1", "", "", "Math">>,
     <<"CountryY", "Beta", "B2", "", "", "Math">>,
     <<"CountryZ", "Gamma", "B3", "", "", "Math">>,
     <<"CountryX", "Alpha">> >>

Master(sh) == sh[SHEET_MASTER_PROGRESS]

\* the suffix test alone, the master sheet included
IsProgressSheet_WithMaster(title) == EndsWith(title, PROGRESS_SHEET_SUFFIX)

\* ws.title.endswith("_Progress") and ws.title != "Central_Weekly_Progress"
IsProgressSheet(title) ==
  EndsWith(title, PROGRESS_SHEET_SUFFIX) /\ title # SHEET_MASTER_PROGRESS

progress_sheets == SelectSeq(Worksheets, IsProgressSheet)

ProgressTitles == {progress_sheets[i] : i \in 1..Len(progress_sheets)}

\* batch_to_center.get(batch_id, "Unknown Center")
batch_to_center(sh, batch_id) ==
  DictGet(sh[SHEET_BATCHES], IDX_BATCH_ID, IDX_BATCH_CENTER, IDX_BATCH_ID, batch_id, "Unknown Center")

\* center_to_country.get(center, "Unknown Country")
center_to_country(sh, center) ==
  DictGet(sh[SHEET_CENTERS], IDX_CENTER_NAME, IDX_CENTER_COUNTRY, IDX_CENTER_NAME, center, "Unknown Country")

\* worksheet.update of one cell: column G of sheet row i (row 1 is the header)
\* the same update aimed at column F of the row
UpdateG_ColumnF(rows, i, value) ==
  IF i - 1 \in 1..Len(rows)
  THEN [rows EXCEPT ![i - 1] = IF Len(@) >= 6 THEN [@ EXCEPT ![6] = value] ELSE @]
  ELSE rows

UpdateG(rows, i, value) ==
  IF i - 1 \in 1..Len(rows)
  THEN [rows EXCEPT ![i - 1] =
          IF Len(@) >= 7 THEN [@ EXCEPT ![7] = value]
          ELSE @ \o [k \in 1..(6 - Len(@)) |-> ""] \o <<value>>]
  ELSE rows

\* the sync flag cell counts as set: str(row[6]).strip() in ["1", "TRUE", "true"]
IsSyncedFlag(flag) == Strip(flag) \in {"1", "TRUE", "true"}

\* [sync_timestamp, country, center] + row[1:6]
master_row(country, center, row, t) == <<Timestamp(t), country, center>> \o SubSeq(row, 2, 6)

-----------------------------------------------------------------------------
(* merge_weekly_to_master, app2.py *)

\* the key set built from the master rows read at the start of the run
existing_keys_app2(master_data) ==
  LET need == MaxOf({IDX_MASTER_CENTER, IDX_MASTER_BATCH_ID, IDX_MASTER_SUBJECT, IDX_MASTER_WEEK})
  IN { <<Cell(master_data[j], IDX_MASTER_CENTER), Cell(master_data[j], IDX_MASTER_BATCH_ID),
         Cell(master_data[j], IDX_MASTER_SUBJECT), Cell(master_data[j], IDX_MASTER_WEEK)>> :
       j \in {k \in 1..Len(master_data) : Len(master_data[k]) > need} }

\* ScanRow_app2 with the flag update of a newly merged row forgotten
ScanRow_app2_NoFlag(sh, row, i, t, acc) ==
  IF Len(row) < 7 \/ IsSyncedFlag(row[7]) THEN acc
  ELSE
    LET batch_id == Cell(row, 1)
        center == batch_to_center(sh, batch_id)
        entry_key == <<center, batch_id, Cell(row, 2), Cell(row, 5)>>
    IN IF entry_key \in acc.existing_keys
       THEN [acc EXCEPT !.updates_to_make = Append(@, <<i, "1">>)]
       ELSE [acc EXCEPT !.existing_keys = @ \cup {entry_key},
                        !.data_to_sync =
                          Append(@, master_row(center_to_country(sh, center), center, row, t))]

\* one iteration of the row loop; i is the sheet row number (data index + 1);
\* acc holds existing_keys, data_to_sync and updates_to_make (pairs <<i, value>> for cell G{i})
ScanRow_app2(sh, row, i, t, acc) ==
  IF Len(row) < 7 \/ IsSyncedFlag(row[7]) THEN acc
  ELSE
    LET batch_id == Cell(row, 1)
        subject == Cell(row, 2)
        week == Cell(row, 5)
        center == batch_to_center(sh, batch_id)
        country == center_to_country(sh, center)
        entry_key == <<center, batch_id, subject, week>>
    IN IF entry_key \in acc.existing_keys
       THEN [acc EXCEPT !.updates_to_make = Append(@, <<i, "1">>)]
       ELSE [existing_keys |-> acc.existing_keys \cup {entry_key},
             data_to_sync |-> Append(acc.data_to_sync, master_row(country, center, row, t)),
             updates_to_make |-> Append(acc.updates_to_make, <<i, "1">>)]

\* ScanRows_app2 with a short row ending the loop (break for continue)
RECURSIVE ScanRows_app2_BreakOnShort(_, _, _, _, _)
ScanRows_app2_BreakOnShort(sh, rows, k, t, acc) ==
  IF k > Len(rows) \/ Len(rows[k]) < 7 THEN acc
  ELSE ScanRows_app2_BreakOnShort(sh, rows, k + 1, t, ScanRow_app2(sh, rows[k], k + 1, t, acc))

RECURSIVE ScanRows_app2(_, _, _, _, _)
ScanRows_app2(sh, rows, k, t, acc) ==
  IF k > Len(rows) THEN acc
  ELSE ScanRows_app2(sh, rows, k + 1, t, ScanRow_app2(sh, rows[k], k + 1, t, acc))

\* ws.batch_update(updates_to_make): every pair <<i, value>> written to G{i}
RECURSIVE batch_update(_, _)
batch_update(rows, updates) ==
  IF Len(updates) = 0 THEN rows
  ELSE batch_update(UpdateG(rows, updates[1][1], updates[1][2]), Tail(updates))

\* the body of "for ws in progress_sheets": st holds the workbook and existing_keys
ProcessSheet_app2(st, title, t) ==
  LET rows == st.sheets[title]
  IN IF Len(rows) = 0 THEN st
     ELSE
       LET acc == ScanRows_app2(st.sheets, rows, 1, t,
                    [existing_keys |-> st.existing_keys, data_to_sync |-> <<>>, updates_to_make |-> <<>>])
           appended == [st.sheets EXCEPT ![SHEET_MASTER_PROGRESS] = @ \o acc.data_to_sync]
           flagged == [appended EXCEPT ![title] = batch_update(@, acc.updates_to_make)]
       IN [sheets |-> flagged, existing_keys |-> acc.existing_keys]

RECURSIVE ProcessSheets_app2(_, _, _)
ProcessSheets_app2(st, titles, t) ==
  IF Len(titles) = 0 THEN st
  ELSE ProcessSheets_app2(ProcessSheet_app2(st, titles[1], t), Tail(titles), t)

\* the workbook after merge_weekly_to_master(sheet) of app2.py ran at time t
merge_weekly_to_master_app2(sh, t) ==
  ProcessSheets_app2([sheets |-> sh, existing_keys |-> existing_keys_app2(Master(sh))],
                     progress_sheets, t).sheets

-----------------------------------------------------------------------------
(* merge_weekly_to_master, app1.py *)

\* any(existing_row[2] == center and existing_row[3] == batch_id and
\*     existing_row[4] == subject and existing_row[5] == week for existing_row in ...):
\* "found", "none", or "raised" when a cell index is out of range before a match
RECURSIVE duplicate_found(_, _, _, _, _)
duplicate_found(existing_master_data, center, batch_id, subject, week) ==
  IF Len(existing_master_data) = 0 THEN "none"
  ELSE
    LET e == existing_master_data[1]
        rest == Tail(existing_master_data)
    IN IF Len(e) < 3 THEN "raised"
       ELSE IF Cell(e, 2) # center THEN duplicate_found(rest, center, batch_id, subject, week)
       ELSE IF Len(e) < 4 THEN "raised"
       ELSE IF Cell(e, 3) # batch_id THEN duplicate_found(rest, center, batch_id, subject, week)
       ELSE IF Len(e) < 5 THEN "raised"
       ELSE IF Cell(e, 4) # subject THEN duplicate_found(rest, center, batch_id, subject, week)
       ELSE IF Len(e) < 6 THEN "raised"
       ELSE IF Cell(e, 5) # week THEN duplicate_found(rest, center, batch_id, subject, week)
       ELSE "found"

\* ScanRow_app1 with the update of the flag cell forgotten
ScanRow_app1_NoFlag(sh, existing_master_data, title, row, i, t) ==
  IF Len(row) < 7 \/ IsSyncedFlag(row[7]) THEN sh
  ELSE
    LET batch_id == Cell(row, 1)
        center == batch_to_center(sh, batch_id)
    IN IF duplicate_found(existing_master_data, center, batch_id, Cell(row, 2), Cell(row, 5)) # "none"
       THEN sh
       ELSE [sh EXCEPT ![SHEET_MASTER_PROGRESS] =
                         Append(@, master_row(center_to_country(sh, center), center, row, t))]

\* one iteration of the row loop: the workbook after it
ScanRow_app1(sh, existing_master_data, title, row, i, t) ==
  IF Len(row) < 7 \/ IsSyncedFlag(row[7]) THEN sh
  ELSE
    LET batch_id == Cell(row, 1)
        center == batch_to_center(sh, batch_id)
        country == center_to_country(sh, center)
        week == Cell(row, 5)
    IN IF duplicate_found(existing_master_data, center, batch_id, Cell(row, 2), week) # "none"
       THEN sh
       ELSE [sh EXCEPT ![SHEET_MASTER_PROGRESS] = Append(@, master_row(country, center, row, t)),
                       ![title] = UpdateG(@, i, "1")]

RECURSIVE ScanRows_app1(_, _, _, _, _, _)
ScanRows_app1(sh, existing_master_data, title, data, k, t) ==
  IF k > Len(data) THEN sh
  ELSE ScanRows_app1(ScanRow_app1(sh, existing_master_data, title, data[k], k + 1, t),
                     existing_master_data, title, data, k + 1, t)

RECURSIVE ProcessSheets_app1(_, _, _, _)
ProcessSheets_app1(sh, existing_master_data, titles, t) ==
  IF Len(titles) = 0 THEN sh
  ELSE ProcessSheets_app1(ScanRows_app1(sh, existing_master_data, titles[1], sh[titles[1]], 1, t),
                          existing_master_data, Tail(titles), t)

\* the workbook after merge_weekly_to_master(sheet) of app1.py ran at time t
merge_weekly_to_master_app1(sh, t) == ProcessSheets_app1(sh, Master(sh), progress_sheets, t)

merge_weekly_to_master(v, sh, t) ==
  IF v = "app1" THEN merge_weekly_to_master_app1(sh, t) ELSE merge_weekly_to_master_app2(sh, t)

-----------------------------------------------------------------------------
(* merge_weekly_to_master when a store call fails.  A fault [title, op] makes
   every call of one kind on one progress sheet raise during the run: "read" is
   ws.get_all_values(), "append" the append of that sheet's rows to master,
   "update" the write of that sheet's flag cells. *)

FaultOps == {"read", "append", "update"}

Faults == {[title |-> title, op |-> op] : title \in ProgressTitles, op \in FaultOps}

\* app2.py, the body of "for ws in progress_sheets" inside its try/except: an
\* exception ends the work on this sheet with a warning; the keys the row loop
\* added to existing_keys stay in the set
ProcessSheet_app2_fault(st, title, t, fault) ==
  IF fault.title # title
  THEN LET n == ProcessSheet_app2([sheets |-> st.sheets, existing_keys |-> st.existing_keys], title, t)
       IN [sheets |-> n.sheets, existing_keys |-> n.existing_keys, warned |-> st.warned]
  ELSE IF fault.op = "read" THEN [st EXCEPT !.warned = TRUE]
  ELSE
    LET rows == st.sheets[title]
    IN IF Len(rows) = 0 THEN st
       ELSE
         LET acc == ScanRows_app2(st.sheets, rows, 1, t,
                      [existing_keys |-> st.existing_keys, data_to_sync |-> <<>>, updates_to_make |-> <<>>])
             appended == [st.sheets EXCEPT ![SHEET_MASTER_PROGRESS] = @ \o acc.data_to_sync]
             flagged == [appended EXCEPT ![title] = batch_update(@, acc.updates_to_make)]
         IN IF fault.op = "append" /\ Len(acc.data_to_sync) > 0
            THEN [sheets |-> st.sheets, existing_keys |-> acc.existing_keys, warned |-> TRUE]
            ELSE IF fault.op = "update" /\ Len(acc.updates_to_make) > 0
            THEN [sheets |-> appended, existing_keys |-> acc.existing_keys, warned |-> TRUE]
            ELSE [sheets |-> flagged, existing_keys |-> acc.existing_keys, warned |-> st.warned]

RECURSIVE ProcessSheets_app2_fault(_, _, _, _)
ProcessSheets_app2_fault(st, titles, t, fault) ==
  IF Len(titles) = 0 THEN st
  ELSE ProcessSheets_app2_fault(ProcessSheet_app2_fault(st, titles[1], t, fault), Tail(titles), t, fault)

\* app2.py: the workbook after the run, whether a warning was shown, whether the
\* exception left merge_weekly_to_master (it never does: the outer except shows it)
merge_weekly_to_master_app2_fault(sh, t, fault) ==
  LET end == ProcessSheets_app2_fault(
               [sheets |-> sh, existing_keys |-> existing_keys_app2(Master(sh)), warned |-> FALSE],
               progress_sheets, t, fault)
  IN [sheets |-> end.sheets, warned |-> end.warned, raised |-> FALSE]

\* app1.py, one iteration of the row loop on the failing sheet: the try/except
\* around the row turns the exception into a warning
ScanRow_app1_fault(st, existing_master_data, title, row, i, t, fault) ==
  IF Len(row) < 7 \/ IsSyncedFlag(row[7]) THEN st
  ELSE
    LET batch_id == Cell(row, 1)
        center == batch_to_center(st.sheets, batch_id)
        country == center_to_country(st.sheets, center)
        week == Cell(row, 5)
    IN IF duplicate_found(existing_master_data, center, batch_id, Cell(row, 2), week) # "none"
       THEN st
       ELSE IF fault.op = "append" THEN [st EXCEPT !.warned = TRUE]
       ELSE [st EXCEPT !.sheets[SHEET_MASTER_PROGRESS] = Append(@, master_row(country, center, row, t)),
                       !.warned = TRUE]

RECURSIVE ScanRows_app1_fault(_, _, _, _, _, _, _)
ScanRows_app1_fault(st, existing_master_data, title, data, k, t, fault) ==
  IF k > Len(data) THEN st
  ELSE ScanRows_app1_fault(ScanRow_app1_fault(st, existing_master_data, title, data[k], k + 1, t, fault),
                           existing_master_data, title, data, k + 1, t, fault)

\* app1.py, "for ws in progress_sheets": ws.get_all_values() stands outside every
\* try, so a failed read leaves the loop and the function with the exception
RECURSIVE ProcessSheets_app1_fault(_, _, _, _, _)
ProcessSheets_app1_fault(st, existing_master_data, titles, t, fault) ==
  IF Len(titles) = 0 THEN st
  ELSE IF fault.title # titles[1]
  THEN ProcessSheets_app1_fault(
         [st EXCEPT !.sheets = ScanRows_app1(st.sheets, existing_master_data, titles[1],
                                             st.sheets[titles[1]], 1, t)],
         existing_master_data, Tail(titles), t, fault)
  ELSE IF fault.op = "read" THEN [st EXCEPT !.raised = TRUE]
  ELSE ProcessSheets_app1_fault(
         ScanRows_app1_fault(st, existing_master_data, titles[1], st.sheets[titles[1]], 1, t, fault),
         existing_master_data, Tail(titles), t, fault)

merge_weekly_to_master_app1_fault(sh, t, fault) ==
  ProcessSheets_app1_fault([sheets |-> sh, warned |-> FALSE, raised |-> FALSE],
                           Master(sh), progress_sheets, t, fault)

merge_weekly_to_master_fault(v, sh, t, fault) ==
  IF v = "app1" THEN merge_weekly_to_master_app1_fault(sh, t, fault)
  ELSE merge_weekly_to_master_app2_fault(sh, t, fault)

-----------------------------------------------------------------------------
(* submit_to_progress_sheet *)

\* row_to_append with the sync flag written as set
row_to_append_Flagged(form_data, t) ==
  <<Timestamp(t), form_data.Batch, form_data.Subject, form_data.Faculty,
    Join(", ", form_data.Chapters), Str(form_data.Week), "1">>

\* the row appended by submit_to_progress_sheet
row_to_append(form_data, t) ==
  <<Timestamp(t), form_data.Batch, form_data.Subject, form_data.Faculty,
    Join(", ", form_data.Chapters), Str(form_data.Week), "0">>

\* the workbook after submit_to_progress_sheet(form_data) ran at time t;
\* when the sheet is missing nothing is appended
submit_to_progress_sheet(sh, form_data, t) ==
  LET sheet_name == form_data.Center \o PROGRESS_SHEET_SUFFIX
  IN IF sheet_name \in DOMAIN sh
     THEN [sh EXCEPT ![sheet_name] = Append(@, row_to_append(form_data, t))]
     ELSE sh

\* what submit_to_progress_sheet returns to the submit handler: app1.py returns
\* None after the append and None from the bare "return" of its except branch;
\* app2.py returns True or False
submit_returns(v, found) ==
  IF v = "app1" THEN "None" ELSE IF found THEN "True" ELSE "False"

\* the messages on the page after the submit handler: st.error of the function,
\* st.success of the call site (app1.py shows it unconditionally, app2.py "if success")
submit_messages(v, found) ==
  (IF found THEN {} ELSE {"error"})
    \cup (IF v = "app1" \/ submit_returns(v, found) = "True" THEN {"success"} ELSE {})

\* get_centers over every country: the centers the form offers
FormCenters(sh) ==
  {Cell(sh[SHEET_CENTERS][i], 2) : i \in {k \in 1..Len(sh[SHEET_CENTERS]) : Len(sh[SHEET_CENTERS][k]) > 2}}

\* get_batches(selected_center)
get_batches(sh, selected_center) ==
  {Cell(sh[SHEET_BATCHES][i], 2) :
     i \in {k \in 1..Len(sh[SHEET_BATCHES]) :
              Len(sh[SHEET_BATCHES][k]) > 2 /\ Cell(sh[SHEET_BATCHES][k], 1) = selected_center}}

\* what the form's select boxes offer
Subjects == {"Math"}
Faculties == {"F.Smith", "2"}
ChapterChoices == {<<"Ch1", "Ch2">>}
Weeks == {1, 2}

-----------------------------------------------------------------------------
(* The missing-submission audit ("Check Missing") *)

\* app2.py: the list assigned to st.session_state.missing_batches
find_missing_app2(batches_data, center_data, master_data, week_number) ==
  LET IsActive(row) == Len(row) > 2
      active_batches == SelectSeq(batches_data, IsActive)
      need == MaxOf({IDX_MASTER_BATCH_ID, IDX_MASTER_WEEK})
      submitted_this_week ==
        {Cell(master_data[j], IDX_MASTER_BATCH_ID) :
           j \in {k \in 1..Len(master_data) :
                    /\ Len(master_data[k]) > need
                    /\ Strip(Cell(master_data[k], IDX_MASTER_WEEK)) = Str(week_number)}}
      IsMissing(row) == Cell(row, 2) \notin submitted_this_week
      HasEmail(row) == Len(row) > IDX_CENTER_EMAIL /\ Cell(row, IDX_CENTER_EMAIL) # ""
      with_email == SelectSeq(center_data, HasEmail)
      rows == SelectSeq(active_batches, IsMissing)
  IN [i \in 1..Len(rows) |->
        [Country |-> Cell(rows[i], 0), Center |-> Cell(rows[i], 1), BatchID |-> Cell(rows[i], 2),
         Email |-> DictGet(with_email, IDX_CENTER_NAME, IDX_CENTER_EMAIL, IDX_CENTER_EMAIL,
                           Cell(rows[i], 1), "N/A - Email not found")]]

\* app1.py: set((row[3], row[7]) for row in master_data if len(row) > 5) raises
\* IndexError on a row of 6 or 7 cells
audit_raises_app1(master_data) ==
  \E j \in 1..Len(master_data) : Len(master_data[j]) > 5 /\ Len(master_data[j]) < 8

\* app1.py: the list assigned to st.session_state.missing_batches
find_missing_app1(batches_data, center_data, master_data, week_number) ==
  LET IsActive(row) == Len(row) >= 3
      active_batches == SelectSeq(batches_data, IsActive)
      submitted ==
        {<<Cell(master_data[j], 3), Cell(master_data[j], 7)>> :
           j \in {k \in 1..Len(master_data) : Len(master_data[k]) > 5}}
      IsMissing(row) == <<Cell(row, 2), Str(week_number)>> \notin submitted
      rows == SelectSeq(active_batches, IsMissing)
  IN [i \in 1..Len(rows) |->
        [Country |-> Cell(rows[i], 0), Center |-> Cell(rows[i], 1), BatchID |-> Cell(rows[i], 2),
         Email |-> DictGet(center_data, 2, 3, 3, Cell(rows[i], 1), "N/A")]]

NoCache == [valid |-> FALSE, rows |-> <<>>]

\* no form was submitted; no store call failed
NoForm == [Center |-> "", Batch |-> "", Subject |-> "", Faculty |-> "", Chapters |-> <<>>, Week |-> 0]
NoFault == [title |-> "", op |-> ""]

\* a handler that took no form, met no store error, returned nothing and showed nothing
NoRun == [form |-> NoForm, fault |-> NoFault, returned |-> "None", messages |-> {}]

\* fetch_worksheet_data(sheet, "Central_Weekly_Progress") under st.cache_data(ttl=600)
get_master_progress_data(sh, cache) == IF cache.valid THEN cache.rows ELSE Master(sh)

\* the browser sessions that may run a merge at the same time
Sessions == {1, 2}

\* no merge run in progress in a session.  A run keeps the locals of
\* merge_weekly_to_master: the master rows read at its start, the key set
\* (app2.py), the index k of the sheet it works on and the rows read from it;
\* rows_at_begin notes how many rows each progress sheet held when the run began
IdleRun ==
  [pc |-> "idle", existing_master_data |-> <<>>, existing_keys |-> {}, k |-> 0, rows |-> <<>>,
   rows_at_begin |-> [title \in ProgressTitles |-> 0]]

\* write_sheet that reads the flags and the master rows again before it writes
write_sheet_Reread(v, sh, run, t) ==
  LET title == progress_sheets[run.k]
  IN IF v = "app1"
     THEN [sheets |-> ScanRows_app1(sh, Master(sh), title, sh[title], 1, t),
           existing_keys |-> run.existing_keys]
     ELSE ProcessSheet_app2([sheets |-> sh, existing_keys |-> existing_keys_app2(Master(sh))], title, t)

\* write_sheet that loops over the rows the sheet holds at the time of writing
write_sheet_CurrentRows(v, sh, run, t) ==
  LET title == progress_sheets[run.k]
  IN IF v = "app1"
     THEN [sheets |-> ScanRows_app1(sh, run.existing_master_data, title, sh[title], 1, t),
           existing_keys |-> run.existing_keys]
     ELSE IF Len(sh[title]) = 0 THEN [sheets |-> sh, existing_keys |-> run.existing_keys]
     ELSE
       LET acc == ScanRows_app2(sh, sh[title], 1, t,
                    [existing_keys |-> run.existing_keys, data_to_sync |-> <<>>, updates_to_make |-> <<>>])
           appended == [sh EXCEPT ![SHEET_MASTER_PROGRESS] = @ \o acc.data_to_sync]
           flagged == [appended EXCEPT ![title] = batch_update(@, acc.updates_to_make)]
       IN [sheets |-> flagged, existing_keys |-> acc.existing_keys]

\* what a run does with the rows it read from sheet k: the row loop over
\* run.rows against the run's own master rows and keys, with its writes (the
\* appends to master and the flag cells) made on the workbook as it is now
write_sheet(v, sh, run, t) ==
  LET title == progress_sheets[run.k]
  IN IF v = "app1"
     THEN [sheets |-> ScanRows_app1(sh, run.existing_master_data, title, run.rows, 1, t),
           existing_keys |-> run.existing_keys]
     ELSE IF Len(run.rows) = 0 THEN [sheets |-> sh, existing_keys |-> run.existing_keys]
     ELSE
       LET acc == ScanRows_app2(sh, run.rows, 1, t,
                    [existing_keys |-> run.existing_keys, data_to_sync |-> <<>>, updates_to_make |-> <<>>])
           appended == [sh EXCEPT ![SHEET_MASTER_PROGRESS] = @ \o acc.data_to_sync]
           flagged == [appended EXCEPT ![title] = batch_update(@, acc.updates_to_make)]
       IN [sheets |-> flagged, existing_keys |-> acc.existing_keys]

-----------------------------------------------------------------------------
(* notify_via_gas and safe_post_with_retry, app1.py *)

max_retries == 3

\* backoff = 2: the seconds slept after the first failed attempt
first_backoff == 2

\* the status of a POST that raised (timeout, connection error) in place of a response
TransportError == 0

\* what requests.post may give: a status code, or an exception
Responses == {200, 201, 500, TransportError}

\* no notify_via_gas call in progress
NoCall ==
  [pc |-> "idle", batch_id |-> "", attempt |-> 0, backoff |-> first_backoff,
   responses |-> <<>>, slept |-> <<>>, success |-> FALSE, ret |-> "None"]

\* one pass of "while attempt < max_retries" in safe_post_with_retry: the POST
\* and, when it is not answered with status 200, the sleep that follows it
post_attempt(c, response) ==
  IF response # TransportError /\ response = 200
  THEN [c EXCEPT !.responses = Append(@, response), !.success = TRUE, !.pc = "returned"]
  ELSE [c EXCEPT !.responses = Append(@, response),
                 !.attempt = @ + 1,
                 !.slept = Append(@, c.backoff),
                 !.backoff = @ * 2,
                 !.pc = IF c.attempt + 1 < max_retries THEN "post" ELSE "returned"]

\* what notify_via_gas returns: the error text when the append to PendingEmails
\* raised; otherwise the function ends after safe_post_with_retry with no return
\* statement, whatever success was
notify_returns(appended, success) ==
  IF ~appended THEN "Error appending to sheet" ELSE "None"

\* the row notify_via_gas appends to PendingEmails
pending_row(entry, week, t) ==
  <<Timestamp(t), entry.Center, entry.Email, entry.BatchID, Str(week), "Pending">>

-----------------------------------------------------------------------------
(* Initial workbooks *)

\* dict(): no batch has a notification time
NoTimes == [batch_id \in {} |-> 0]

EmptyBook ==
  [title \in Titles |->
     IF title = SHEET_CENTERS THEN CentersData
     ELSE IF title = SHEET_BATCHES THEN BatchesData
     ELSE <<>>]

\* a sheet with a short row between two complete, unsynced rows
MalformedBook ==
  [EmptyBook EXCEPT !["Alpha_Progress"] =
     << <<"T0", "B1", "Math", "F.Smith", "Ch1, Ch2", "1", "0">>,
        <<"T0", "B1", "Math", "F.Smith", "Ch1">>,
        <<"T0", "B1", "Math", "F.Smith", "Ch1, Ch2", "2", "0">> >>]

\* a row merged earlier, its flag stored as TRUE
SyncedBook ==
  [EmptyBook EXCEPT !["Beta_Progress"] =
                      << <<"T0", "B2", "Math", "F.Smith", "Ch1, Ch2", "1", "TRUE">> >>,
                    ![SHEET_MASTER_PROGRESS] =
                      << <<"T0", "Unknown Country", "Beta", "B2", "Math", "F.Smith", "Ch1, Ch2", "1">> >>]

\* the same batch, subject and week waiting in two sheets
CrossBook ==
  [EmptyBook EXCEPT !["Alpha_Progress"] =
                      << <<"T0", "B1", "Math", "F.Smith", "Ch1, Ch2", "1", "0">> >>,
                    !["Beta_Progress"] =
                      << <<"T0", "B1", "Math", "2", "Ch1", "1", "0">> >>]

InitialBooks == {EmptyBook, MalformedBook, SyncedBook, CrossBook}

\* what the flag cell of a progress row may hold: written by the application
\* ("0", "1"), shown for a checkbox cell ("TRUE", "FALSE"), typed by hand, or empty
FlagValues == {"0", "1", "TRUE", "true", "True", "FALSE", "false", ""}

\* a row of batch B2 with a given flag cell, its master row present or not
FlagBook(flag, merged) ==
  [EmptyBook EXCEPT !["Beta_Progress"] =
                      << <<"T0", "B2", "Math", "F.Smith", "Ch1, Ch2", "1", flag>> >>,
                    ![SHEET_MASTER_PROGRESS] =
                      IF merged
                      THEN << <<"T0", "Unknown Country", "Beta", "B2", "Math", "F.Smith", "Ch1, Ch2", "1">> >>
                      ELSE <<>>]

FlagBooks == {FlagBook(flag, merged) : flag \in FlagValues, merged \in BOOLEAN}

\* a row of a batch that Batches does not list
UnknownBatchBook ==
  [EmptyBook EXCEPT !["Alpha_Progress"] =
     << <<"T0", "B9", "Math", "F.Smith", "Ch1, Ch2", "1", "0">> >>]

\* a row of batch B2, whose center Beta has no row in Centers
UnknownCenterBook ==
  [EmptyBook EXCEPT !["Beta_Progress"] =
     << <<"T0", "B2", "Math", "F.Smith", "Ch1, Ch2", "1", "0">> >>]

\* week 1 of the unlisted batch was merged earlier, week 2 is waiting
UnknownBatchAgainBook ==
  [EmptyBook EXCEPT !["Alpha_Progress"] =
                      << <<"T0", "B9", "Math", "2", "Ch1, Ch2", "1", "1">>,
                         <<"T0", "B9", "Math", "2", "Ch1, Ch2", "2", "0">> >>,
                    ![SHEET_MASTER_PROGRESS] =
                      << <<"T0", "Unknown Country", "Unknown Center", "B9", "Math", "2", "Ch1, Ch2", "1">> >>]

LookupBooks == {UnknownBatchBook, UnknownCenterBook, UnknownBatchAgainBook}

-----------------------------------------------------------------------------
(* The state machine *)

\* a session that has just opened the application
AtHome == page = "Home" /\ logged_in = FALSE /\ show_login_form = FALSE

\* a session on the Admin page, after a login
AtAdmin == page = "Admin" /\ logged_in = TRUE /\ show_login_form = FALSE

InitData(books) ==
  /\ variant \in Variants
  /\ sheets \in books
  /\ now = 0
  /\ masterCache = NoCache
  /\ missing_batches = <<>>
  /\ last_checked_week = 0
  /\ lastOp = "init"
  /\ lastRun = NoRun
  /\ runs = [r \in Sessions |-> IdleRun]
  /\ notified_batches = {}
  /\ call = NoCall
  /\ last_notified_time = NoTimes

InitWith(books) == InitData(books) /\ AtHome

Init == InitWith(InitialBooks)

InitEmpty == InitWith({EmptyBook})

Ran(op) == lastOp' = op

RECURSIVE RowCount(_, _)
RowCount(sh, titles) ==
  IF Len(titles) = 0 THEN 0 ELSE Len(sh[titles[1]]) + RowCount(sh, Tail(titles))

\* a second passes
Tick ==
  /\ now < MaxClock
  /\ now' = now + 1
  /\ UNCHANGED <<variant, sheets, masterCache, missing_batches, last_checked_week, lastOp>>
  /\ UNCHANGED <<lastRun, runs, notified_batches, call, login, last_notified_time>>

\* the ttl of the cached master rows runs out (app2.py)
CacheExpire ==
  /\ masterCache.valid
  /\ now < MaxClock
  /\ now' = now + 1
  /\ masterCache' = NoCache
  /\ UNCHANGED <<variant, sheets, missing_batches, last_checked_week, lastOp>>
  /\ UNCHANGED <<lastRun, runs, notified_batches, call, login, last_notified_time>>

\* the Update page's Submit button with every field filled in; when the
\* center has no progress sheet nothing is written
Submit ==
  \E center \in FormCenters(sheets) :
    \E batch \in get_batches(sheets, center) :
      \E subject \in Subjects, faculty \in Faculties, chapters \in ChapterChoices, week \in Weeks :
        LET form_data == [Center |-> center, Batch |-> batch, Subject |-> subject,
                          Faculty |-> faculty, Chapters |-> chapters, Week |-> week]
            found == (center \o PROGRESS_SHEET_SUFFIX) \in DOMAIN sheets
        IN /\ RowCount(sheets, progress_sheets) < MaxRows
           /\ sheets' = submit_to_progress_sheet(sheets, form_data, now)
           /\ Ran("submit")
           /\ lastRun' = [NoRun EXCEPT !.form = form_data,
                                       !.returned = submit_returns(variant, found),
                                       !.messages = submit_messages(variant, found)]
           /\ UNCHANGED <<variant, now, masterCache, missing_batches, last_checked_week>>
           /\ UNCHANGED <<runs, notified_batches, call, login, last_notified_time>>

\* the messages on the page after the merge handler: app1.py shows st.success
\* after the call, app2.py st.success or st.info by merged_count; a warning for
\* every sheet (app2.py) or row (app1.py) skipped on an exception
merge_messages(v, before, after, warned) ==
  (IF v = "app1" \/ Len(Master(after)) > Len(Master(before)) THEN {"success"} ELSE {"info"})
    \cup (IF warned THEN {"warning"} ELSE {})

\* the Admin page's merge button
Merge ==
  /\ sheets' = merge_weekly_to_master(variant, sheets, now)
  /\ Ran(IF lastOp \in {"merge", "remerge"} THEN "remerge" ELSE "merge")
  /\ lastRun' = [NoRun EXCEPT !.messages = merge_messages(variant, sheets, sheets', FALSE)]
  /\ UNCHANGED <<variant, now, masterCache, missing_batches, last_checked_week>>
  /\ UNCHANGED <<runs, notified_batches, call, login, last_notified_time>>

\* the Admin page's merge button while a store call fails; an exception that
\* leaves merge_weekly_to_master ends the handler before its st.success
MergeFaulty ==
  \E fault \in Faults :
    LET end == merge_weekly_to_master_fault(variant, sheets, now, fault)
    IN /\ Len(Master(sheets)) < MaxMaster
       /\ sheets' = end.sheets
       /\ Ran("merge_fault")
       /\ lastRun' = [NoRun EXCEPT !.fault = fault,
                                   !.returned = IF end.raised THEN "raised" ELSE "None",
                                   !.messages = IF end.raised THEN {"exception"}
                                                ELSE merge_messages(variant, sheets, end.sheets, end.warned)]
       /\ UNCHANGED <<variant, now, masterCache, missing_batches, last_checked_week>>
       /\ UNCHANGED <<runs, notified_batches, call, login, last_notified_time>>

\* the Admin page's check button, app1.py
CheckMissing_app1 ==
  /\ variant = "app1"
  /\ \E week_number \in Weeks :
       /\ ~audit_raises_app1(Master(sheets))
       /\ missing_batches' =
            find_missing_app1(sheets[SHEET_BATCHES], sheets[SHEET_CENTERS], Master(sheets), week_number)
       /\ last_checked_week' = week_number
  /\ notified_batches' = {}
  /\ Ran("audit")
  /\ lastRun' = NoRun
  /\ UNCHANGED <<variant, sheets, now, masterCache>>
  /\ last_notified_time' = NoTimes
  /\ UNCHANGED <<runs, call, login>>

\* the Admin page's check button, app2.py
CheckMissing_app2 ==
  /\ variant = "app2"
  /\ \E week_number \in Weeks :
       LET master_data == get_master_progress_data(sheets, masterCache)
       IN /\ missing_batches' =
               find_missing_app2(sheets[SHEET_BATCHES], sheets[SHEET_CENTERS], master_data, week_number)
          /\ masterCache' = [valid |-> TRUE, rows |-> master_data]
          /\ last_checked_week' = week_number
  /\ Ran("audit")
  /\ lastRun' = NoRun
  /\ UNCHANGED <<variant, sheets, now>>
  /\ UNCHANGED <<runs, notified_batches, call, login, last_notified_time>>

\* a Notify button of the audit list, app1.py: notify_via_gas up to its call of
\* safe_post_with_retry; the append to PendingEmails may raise
NotifyClick ==
  /\ variant = "app1"
  /\ call.pc = "idle"
  /\ Len(sheets["PendingEmails"]) < MaxPending
  /\ \E i \in 1..Len(missing_batches), appended \in BOOLEAN :
       LET entry == missing_batches[i]
       IN /\ entry.BatchID \notin notified_batches
          /\ sheets' = IF appended
                       THEN [sheets EXCEPT !["PendingEmails"] =
                                             Append(@, pending_row(entry, last_checked_week, now))]
                       ELSE sheets
          /\ call' = [NoCall EXCEPT !.batch_id = entry.BatchID,
                                    !.pc = IF appended THEN "post" ELSE "returned",
                                    !.ret = notify_returns(appended, FALSE)]
  /\ UNCHANGED <<variant, now, masterCache, missing_batches, last_checked_week, lastOp>>
  /\ UNCHANGED <<lastRun, runs, notified_batches, login, last_notified_time>>

\* one attempt of safe_post_with_retry
Post ==
  /\ call.pc = "post"
  /\ call.attempt < max_retries
  /\ \E response \in Responses :
       LET c == post_attempt(call, response)
       IN call' = [c EXCEPT !.ret = notify_returns(TRUE, c.success)]
  /\ UNCHANGED <<variant, sheets, now, masterCache, missing_batches, last_checked_week, lastOp>>
  /\ UNCHANGED <<lastRun, runs, notified_batches, login, last_notified_time>>

\* notified_batches.add(...) left out
mark_notified_Forget(notified, batch_id) == notified

\* st.session_state.notified_batches.add(entry['Batch ID'])
mark_notified(notified, batch_id) == notified \cup {batch_id}

\* notify_via_gas has returned: the handler marks the batch as notified and
\* stores its success message, whatever the result was
NotifyReturn ==
  /\ call.pc = "returned"
  /\ notified_batches' = mark_notified(notified_batches, call.batch_id)
  /\ last_notified_time' =
       [batch_id \in DOMAIN last_notified_time \cup {call.batch_id} |->
          IF batch_id = call.batch_id THEN now ELSE last_notified_time[batch_id]]
  /\ lastRun' = [NoRun EXCEPT !.returned = call.ret, !.messages = {"success"}]
  /\ Ran("notify")
  /\ call' = NoCall
  /\ UNCHANGED <<variant, sheets, now, masterCache, missing_batches, last_checked_week, runs>>
  /\ UNCHANGED login

\* a session's merge button: merge_weekly_to_master up to its loop over the
\* progress sheets (the master rows are read, the key set is built).  The
\* sessions are interchangeable: the second is used while the first is running.
MergeBegin(r) ==
  /\ runs[r].pc = "idle"
  /\ r = 1 \/ runs[1].pc # "idle"
  /\ runs' = [runs EXCEPT ![r] =
                [pc |-> "read",
                 existing_master_data |-> Master(sheets),
                 existing_keys |-> IF variant = "app2" THEN existing_keys_app2(Master(sheets)) ELSE {},
                 k |-> 1,
                 rows |-> <<>>,
                 rows_at_begin |-> [title \in ProgressTitles |-> Len(sheets[title])]]]
  /\ UNCHANGED <<variant, sheets, now, masterCache, missing_batches, last_checked_week, lastOp>>
  /\ UNCHANGED <<lastRun, notified_batches, call, login, last_notified_time>>

\* rows = ws.get_all_values() of the run's next sheet
MergeRead(r) ==
  /\ runs[r].pc = "read"
  /\ runs' = [runs EXCEPT ![r].rows = sheets[progress_sheets[runs[r].k]], ![r].pc = "write"]
  /\ UNCHANGED <<variant, sheets, now, masterCache, missing_batches, last_checked_week, lastOp>>
  /\ UNCHANGED <<lastRun, notified_batches, call, login, last_notified_time>>

\* the row loop and the writes for the sheet just read; after the last sheet
\* the run is over
MergeWrite(r) ==
  /\ runs[r].pc = "write"
  /\ LET end == write_sheet(variant, sheets, runs[r], now)
     IN /\ sheets' = end.sheets
        /\ runs' = [runs EXCEPT ![r] =
                      IF runs[r].k < Len(progress_sheets)
                      THEN [@ EXCEPT !.pc = "read", !.k = @ + 1,
                                     !.existing_keys = end.existing_keys]
                      ELSE IdleRun]
  /\ Ran("merge_write")
  /\ UNCHANGED <<variant, now, masterCache, missing_batches, last_checked_week>>
  /\ UNCHANGED <<lastRun, notified_batches, call, login, last_notified_time>>

\* the Clear Results button under the audit list, app1.py
ClearResults ==
  /\ variant = "app1"
  /\ call.pc = "idle"
  /\ Len(missing_batches) > 0
  /\ missing_batches' = <<>>
  /\ notified_batches' = {}
  /\ last_notified_time' = NoTimes
  /\ Ran("clear")
  /\ lastRun' = NoRun
  /\ UNCHANGED <<variant, sheets, now, masterCache, last_checked_week, runs, call, login>>

\* st.secrets["credentials"]: the administrator's name and password
ADMIN_USERNAME == "admin"

ADMIN_PASSWORD == "secret"

\* what may be typed into the login form
Usernames == {ADMIN_USERNAME, "guest"}

Passwords == {ADMIN_PASSWORD, ""}

\* the button "Update Weekly Progress" of the Home page
UpdateWeeklyProgress ==
  /\ page = "Home"
  /\ page' = "Update"
  /\ UNCHANGED <<variant, sheets, now, masterCache, missing_batches, last_checked_week, lastOp>>
  /\ UNCHANGED <<lastRun, runs, notified_batches, call, last_notified_time>>
  /\ UNCHANGED <<logged_in, show_login_form>>

\* the button "Admin Access" of the Home page
AdminAccess ==
  /\ page = "Home"
  /\ show_login_form' = TRUE
  /\ page' = "Home"
  /\ UNCHANGED <<variant, sheets, now, masterCache, missing_batches, last_checked_week, lastOp>>
  /\ UNCHANGED <<lastRun, runs, notified_batches, call, last_notified_time>>
  /\ UNCHANGED logged_in

\* the button "Login Now" of the login form, shown on the Home page while
\* show_login_form is set and nobody is logged in
LoginNow(username, password) ==
  /\ page = "Home"
  /\ show_login_form /\ ~logged_in
  /\ IF username = ADMIN_USERNAME /\ password = ADMIN_PASSWORD
     THEN /\ logged_in' = TRUE
          /\ page' = "Admin"
          /\ show_login_form' = FALSE
          /\ lastRun' = [NoRun EXCEPT !.messages = {"success"}]
     ELSE /\ lastRun' = [NoRun EXCEPT !.messages = {"error"}]
          /\ UNCHANGED login
  /\ Ran("login")
  /\ UNCHANGED <<variant, sheets, now, masterCache, missing_batches, last_checked_week>>
  /\ UNCHANGED <<runs, notified_batches, call, last_notified_time>>

\* Logout that leaves the page as it is
Logout_StayOnPage ==
  /\ page = "Admin"
  /\ logged_in' = FALSE
  /\ UNCHANGED <<variant, sheets, now, masterCache, missing_batches, last_checked_week, lastOp>>
  /\ UNCHANGED <<lastRun, runs, notified_batches, call, last_notified_time>>
  /\ UNCHANGED <<page, show_login_form>>

\* the Logout button of the Admin page
Logout ==
  /\ page = "Admin"
  /\ logged_in' = FALSE
  /\ page' = "Home"
  /\ UNCHANGED <<variant, sheets, now, masterCache, missing_batches, last_checked_week, lastOp>>
  /\ UNCHANGED <<lastRun, runs, notified_batches, call, last_notified_time>>
  /\ UNCHANGED show_login_form

\* the Home button of the progress form
FormHome ==
  /\ page = "Update"
  /\ page' = "Home"
  /\ UNCHANGED <<variant, sheets, now, masterCache, missing_batches, last_checked_week, lastOp>>
  /\ UNCHANGED <<lastRun, runs, notified_batches, call, last_notified_time>>
  /\ UNCHANGED <<logged_in, show_login_form>>

\* the operations in any order; the pages that lead to them are in NextLogin
Next ==
  \/ Tick
  \/ CacheExpire
  \/ Submit
  \/ Merge
  \/ CheckMissing_app1
  \/ CheckMissing_app2

Spec == Init /\ [][Next]_vars

SpecEmpty == InitEmpty /\ [][Next]_vars

\* the handlers on workbooks whose flag cells hold any of the flag values
InitFlags == InitWith(FlagBooks)

SpecFlags == InitFlags /\ [][Next]_vars

\* the handlers on workbooks with rows whose batch or center is not listed
InitLookup == InitWith(LookupBooks)

SpecLookup == InitLookup /\ [][Next]_vars

\* the handlers, with store calls that may fail during a merge
NextFaults == Next \/ MergeFaulty

SpecFaults == Init /\ [][NextFaults]_vars

\* submits (of forms that name the first faculty) and merge runs of two
\* sessions, interleaved at the store calls
NextConcurrent ==
  \/ Submit /\ lastRun'.form.Faculty = "F.Smith"
  \/ \E r \in Sessions : MergeBegin(r)
  \/ \E r \in Sessions : MergeRead(r)
  \/ \E r \in Sessions : MergeWrite(r)

InitConcurrent == InitWith({EmptyBook, CrossBook})

SpecConcurrent == InitConcurrent /\ [][NextConcurrent]_vars

\* the Admin page of app1.py: audits and notifications
NextNotify ==
  \/ call.pc = "idle" /\ CheckMissing_app1
  \/ NotifyClick
  \/ Post
  \/ NotifyReturn
  \/ ClearResults

InitNotify == InitData(InitialBooks) /\ variant = "app1" /\ AtAdmin

SpecNotify == InitNotify /\ [][NextNotify]_vars

\* the rows a session that is followed through its pages adds to the progress
\* sheets, and to PendingEmails
MaxSessionRows == 1

\* a session of app1.py with its pages: each handler runs to its end before the
\* next click is served, and is offered on its page only.  The forms name the
\* first faculty and the first week, and the POST of a notification is
\* answered at once.
Served(p) == page = p /\ call.pc = "idle"

NextLogin ==
  \/ Served("Home") /\ UpdateWeeklyProgress
  \/ Served("Home") /\ AdminAccess
  \/ \E username \in Usernames, password \in Passwords : Served("Home") /\ LoginNow(username, password)
  \/ Served("Admin") /\ Logout
  \/ Served("Update") /\ FormHome
  \/ /\ Served("Update") /\ RowCount(sheets, progress_sheets) < MaxSessionRows
     /\ Submit /\ lastRun'.form.Faculty = "F.Smith" /\ lastRun'.form.Week = 1
  \/ Served("Admin") /\ Merge
  \/ Served("Admin") /\ CheckMissing_app1
  \/ Served("Admin") /\ Len(sheets["PendingEmails"]) < MaxSessionRows /\ NotifyClick
  \/ Post /\ call'.pc = "returned"
  \/ NotifyReturn
  \/ Served("Admin") /\ ClearResults

InitLogin == InitData({EmptyBook}) /\ variant = "app1" /\ AtHome

SpecLogin == InitLogin /\ [][NextLogin]_vars

-----------------------------------------------------------------------------
(* Vocabulary of the properties *)

\* the dedup key (center, batch_id, subject, week) of a master row in the layout
\* [sync_timestamp, country, center, batch_id, subject, faculty, chapters, week]
MasterKey(r) == <<r[3], r[4], r[5], r[8]>>

MasterKeys(sh) == {MasterKey(Master(sh)[j]) : j \in 1..Len(Master(sh))}

\* the dedup key of a progress row [timestamp, batch_id, subject, faculty, chapters, week, flag]
ProgressKey(sh, row) == <<batch_to_center(sh, row[2]), row[2], row[3], row[6]>>

WellFormed(row) == Len(row) >= 7

Synced(row) == WellFormed(row) /\ row[7] \in {"1", "TRUE", "true", "True"}

\* the positions <<title, index>> of the progress rows
Positions(sh) == UNION {{<<title, i>> : i \in 1..Len(sh[title])} : title \in ProgressTitles}

RowAt(sh, p) == sh[p[1]][p[2]]

\* p comes before q in the order in which a merge run reads the rows
SheetIndex(title) == CHOOSE n \in 1..Len(progress_sheets) : progress_sheets[n] = title

Before(p, q) ==
  \/ SheetIndex(p[1]) < SheetIndex(q[1])
  \/ p[1] = q[1] /\ p[2] < q[2]

\* the master rows a step appended
Appended == {j \in 1..Len(Master(sheets')) : j > Len(Master(sheets))}

-----------------------------------------------------------------------------
(* C1..C10 *)

\* C1: the master sheet never holds two rows with the same
\* (center, batch_id, subject, week), whatever submits and merges ran.
C1_NoDuplicateKeys ==
  \A i, j \in 1..Len(Master(sheets)) :
    i < j => MasterKey(Master(sheets)[i]) # MasterKey(Master(sheets)[j])

\* C2: a merge that runs right after a merge, with no submit in between,
\* appends no master row and changes no flag: the workbook stays as it is.
C2_MergeIdempotent ==
  [][(lastOp \in {"merge", "remerge"} /\ Merge) => sheets' = sheets]_vars

\* a second merge ran after a first one that merged and flagged a row
C2_Witness ==
  /\ lastOp = "remerge"
  /\ Len(Master(sheets)) > 0
  /\ \E p \in Positions(sheets) : WellFormed(RowAt(sheets, p)) /\ RowAt(sheets, p)[7] = "1"

\* C3: a complete row flagged "0" whose key is already in master is flagged "1"
\* by the merge, and the merge appends no master row with that key.
C3_Healing ==
  [][Merge =>
       \A p \in Positions(sheets) :
         LET row == RowAt(sheets, p)
         IN (WellFormed(row) /\ row[7] = "0" /\ ProgressKey(sheets, row) \in MasterKeys(sheets))
            => /\ RowAt(sheets', p)[7] = "1"
               /\ \A j \in Appended : MasterKey(Master(sheets')[j]) # ProgressKey(sheets, row)]_vars

\* C4: starting from empty sheets, every flagged progress row has exactly one
\* master row with its key.
C4_SyncedImpliesMerged ==
  \A p \in Positions(sheets) :
    LET row == RowAt(sheets, p)
    IN Synced(row) =>
         Cardinality({j \in 1..Len(Master(sheets)) :
                        MasterKey(Master(sheets)[j]) = ProgressKey(sheets, row)}) = 1

C6_MergeComplete ==
  lastOp \in {"merge", "remerge"} =>
    \A p \in Positions(sheets) :
      LET row == RowAt(sheets, p)
      IN WellFormed(row) => (Synced(row) /\ ProgressKey(sheets, row) \in MasterKeys(sheets))

\* C7: for a complete row [ts, b, s, f, ch, w, "0"] whose key is not in master
\* (and that is the first unflagged row with that key the run reads), the merge
\* appends exactly one row [sync_ts, country, center, b, s, f, ch, w] and sets
\* the row's flag to "1".
C7_RowConstruction ==
  [][Merge =>
       \A p \in Positions(sheets) :
         LET row == RowAt(sheets, p)
             center == batch_to_center(sheets, row[2])
             expected == <<center_to_country(sheets, center), center>> \o SubSeq(row, 2, 6)
             first == \A q \in Positions(sheets) :
                        (/\ Before(q, p)
                         /\ WellFormed(RowAt(sheets, q))
                         /\ ~Synced(RowAt(sheets, q)))
                        => ProgressKey(sheets, RowAt(sheets, q)) # ProgressKey(sheets, row)
         IN (/\ WellFormed(row)
             /\ row[7] = "0"
             /\ ProgressKey(sheets, row) \notin MasterKeys(sheets)
             /\ first)
            => /\ Cardinality({j \in Appended :
                                 /\ Len(Master(sheets')[j]) = 8
                                 /\ Tail(Master(sheets')[j]) = expected}) = 1
               /\ RowAt(sheets', p)[7] = "1"]_vars

\* the workbook with the short progress rows taken out
WithoutMalformed(sh) ==
  [title \in DOMAIN sh |->
     IF title \in ProgressTitles THEN SelectSeq(sh[title], WellFormed) ELSE sh[title]]

\* C8: a merge leaves every progress row of fewer than 7 cells as it is, appends
\* no master row for it, and merges the other rows as if the short rows were
\* not there: master and the complete rows end as after a merge of the workbook
\* without the short rows.
C8_MalformedSkipped ==
  [][Merge =>
       LET clean == merge_weekly_to_master(variant, WithoutMalformed(sheets), now)
       IN /\ \A p \in Positions(sheets) :
               ~WellFormed(RowAt(sheets, p)) => RowAt(sheets', p) = RowAt(sheets, p)
          /\ Master(sheets') = Master(clean)
          /\ \A title \in ProgressTitles :
               /\ Len(sheets'[title]) = Len(sheets[title])
               /\ SelectSeq(sheets'[title], WellFormed) = clean[title]]_vars

\* a merge ran over a sheet with a short row between two complete rows and
\* merged both
C8_Witness ==
  /\ lastOp = "merge"
  /\ Len(Master(sheets)) >= 2
  /\ \E title \in ProgressTitles :
       /\ Len(sheets[title]) >= 3
       /\ ~WellFormed(sheets[title][2])
       /\ Synced(sheets[title][1])
       /\ Synced(sheets[title][3])

\* the email an audit entry may carry for a center: the center's email cell, the
\* "not found" text when the center has no Centers row, either when the cell is empty
EmailOk(sh, center, email) ==
  LET cells == {Cell(sh[SHEET_CENTERS][i], 3) :
                  i \in {k \in 1..Len(sh[SHEET_CENTERS]) :
                           Len(sh[SHEET_CENTERS][k]) > 3 /\ Cell(sh[SHEET_CENTERS][k], 2) = center}}
      sentinels == {"N/A", "N/A - Email not found"}
  IN IF cells = {} THEN email \in sentinels
     ELSE email \in cells \cup (IF "" \in cells THEN sentinels ELSE {})

\* the Batches rows (3 cells or more) with no master row for week w
ExpectedMissing(sh, w) ==
  LET IsActive(row) == Len(row) >= 3
      submitted == {Master(sh)[j][4] : j \in {k \in 1..Len(Master(sh)) : Master(sh)[k][8] = Str(w)}}
      IsMissing(row) == row[3] \notin submitted
  IN SelectSeq(SelectSeq(sh[SHEET_BATCHES], IsActive), IsMissing)

\* C9: the audit for week w lists exactly the complete Batches rows whose batch
\* has no master row with week w, each with its country, center and email.
C9_AuditCorrect ==
  lastOp = "audit" =>
    LET rows == ExpectedMissing(sheets, last_checked_week)
    IN /\ Len(missing_batches) = Len(rows)
       /\ \A i \in 1..Len(rows) :
            /\ missing_batches[i].BatchID = rows[i][3]
            /\ missing_batches[i].Center = rows[i][2]
            /\ missing_batches[i].Country = rows[i][1]
            /\ EmailOk(sheets, rows[i][2], missing_batches[i].Email)

\* C10: an audit writes nothing to the workbook, and an audit right after an
\* audit of the same week, with no write in between, returns the same list.
C10_AuditReadOnly ==
  [][(CheckMissing_app1 \/ CheckMissing_app2) =>
       /\ sheets' = sheets
       /\ (lastOp = "audit" /\ last_checked_week' = last_checked_week)
            => missing_batches' = missing_batches]_vars

-----------------------------------------------------------------------------
(* C11..C20 *)

\* the progress sheet a submitted form goes to
TargetSheet(form) == form.Center \o "_Progress"

\* C11: when the sheet "<Center>_Progress" exists, a submit appends exactly one
\* row [timestamp, batch, subject, faculty, chapters joined by ", ", week as
\* text, "0"] at the end of that sheet; the rows the sheet had, every other
\* progress sheet and the master sheet stay as they were.
C11_SubmitEffect ==
  [][Submit =>
       LET form == lastRun'.form
           target == TargetSheet(form)
       IN target \in DOMAIN sheets =>
            /\ DOMAIN sheets' = DOMAIN sheets
            /\ Len(sheets'[target]) = Len(sheets[target]) + 1
            /\ SubSeq(sheets'[target], 1, Len(sheets[target])) = sheets[target]
            /\ sheets'[target][Len(sheets'[target])] =
                 <<Timestamp(now), form.Batch, form.Subject, form.Faculty,
                   Join(", ", form.Chapters), Str(form.Week), "0">>
            /\ \A title \in DOMAIN sheets \ {target} : sheets'[title] = sheets[title]]_vars

\* a submit appended its row below an older one while master and the other
\* progress sheet held rows
C11_Witness ==
  /\ lastOp = "submit"
  /\ TargetSheet(lastRun.form) \in DOMAIN sheets
  /\ Len(sheets[TargetSheet(lastRun.form)]) >= 2
  /\ sheets[TargetSheet(lastRun.form)][Len(sheets[TargetSheet(lastRun.form)])][5] = "Ch1, Ch2"
  /\ Len(Master(sheets)) >= 1

\* C12: when the sheet "<Center>_Progress" does not exist, a submit creates no
\* sheet and appends no row, what submit_to_progress_sheet returns differs from
\* what it returns after an append, and the page shows no success message.
C12_SubmitFailure ==
  [][(Submit /\ TargetSheet(lastRun'.form) \notin DOMAIN sheets) =>
       /\ sheets' = sheets
       /\ lastRun'.returned # submit_returns(variant, TRUE)
       /\ "success" \notin lastRun'.messages]_vars

\* C13: when a store call on one progress sheet fails during a merge, the run
\* ends without raising and treats every other progress sheet as a run with no
\* failure does: each of their complete unflagged rows gets the flag it gets in
\* such a run, and master holds its key if master holds it after such a run.
C13_TableIsolation ==
  [][MergeFaulty =>
       LET clean == merge_weekly_to_master(variant, sheets, now)
           failed == lastRun'.fault.title
       IN /\ lastRun'.returned # "raised"
          /\ \A title \in ProgressTitles \ {failed} :
               \A i \in 1..Len(sheets[title]) :
                 LET row == sheets[title][i]
                 IN (WellFormed(row) /\ ~Synced(row)) =>
                      /\ sheets'[title][i] = clean[title][i]
                      /\ ProgressKey(sheets, row) \in MasterKeys(clean)
                           => ProgressKey(sheets, row) \in MasterKeys(sheets')]_vars

\* a status code of the 2xx class
Is2xx(response) == response \in 200..299

\* the retry loop of the call has ended
LoopEnded == call.pc = "returned" /\ Len(call.responses) > 0

\* C14: when every POST is answered with a status outside 2xx, the loop makes
\* exactly 3 attempts, sleeps exactly twice, 2 and then 4 seconds, with no sleep
\* after the last attempt, and reports failure.
C14_RetryExhaustion ==
  (/\ LoopEnded
   /\ \A i \in 1..Len(call.responses) :
        call.responses[i] # TransportError /\ ~Is2xx(call.responses[i]))
  => /\ Len(call.responses) = 3
     /\ call.slept = <<2, 4>>
     /\ ~call.success

\* C15: the loop makes at most 3 POSTs; a 2xx response ends it at once with
\* success; every other response or exception is one failed attempt; failure
\* is returned exactly when 3 attempts failed.
C15_RetryOutcome ==
  call.pc # "idle" =>
    LET failed == {i \in 1..Len(call.responses) :
                     call.responses[i] = TransportError \/ ~Is2xx(call.responses[i])}
    IN /\ Len(call.responses) <= 3
       /\ call.attempt = Cardinality(failed)
       /\ \A i \in 1..Len(call.responses) :
            i \notin failed => (i = Len(call.responses) /\ call.pc = "returned" /\ call.success)
       /\ LoopEnded => (~call.success <=> Cardinality(failed) = 3)

\* C16: notify_via_gas raises nothing, and what it returns tells a send that
\* succeeded from one that did not: after a failed append or three failed
\* attempts it differs from what is returned after a successful send.
C16_NotifyResult ==
  call.pc = "returned" =>
    /\ call.ret # "raised"
    /\ ~call.success => call.ret # notify_returns(TRUE, TRUE)

\* the master rows with key key
KeyCount(master, key) == Cardinality({j \in 1..Len(master) : MasterKey(master[j]) = key})

\* the master rows a run appends when it writes now
Pending(run) ==
  LET end == write_sheet(variant, sheets, run, now)
  IN SubSeq(Master(end.sheets), Len(Master(sheets)) + 1, Len(Master(end.sheets)))

\* both runs have read the master sheet and row i of the same progress sheet,
\* unflagged, neither has written for that sheet, and each is about to append
\* the master row of that row
RaceReady(i) ==
  /\ runs[1].pc = "write" /\ runs[2].pc = "write"
  /\ runs[1].k = runs[2].k
  /\ i <= Len(runs[1].rows) /\ i <= Len(runs[2].rows)
  /\ runs[1].rows[i] = runs[2].rows[i]
  /\ WellFormed(runs[1].rows[i]) /\ ~Synced(runs[1].rows[i])
  /\ \A r \in Sessions :
       \E j \in 1..Len(Pending(runs[r])) :
         /\ Len(Pending(runs[r])[j]) = 8
         /\ SubSeq(Pending(runs[r])[j], 4, 8) = SubSeq(runs[r].rows[i], 2, 6)

\* C17: when two merge runs have both read the master sheet and the same
\* unflagged progress row before either wrote, the two writes, in either order,
\* leave master with two more rows of that row's key: the second run appends
\* from what it read and does not see the first run's row.
C17_MergeRace ==
  \A i \in 1..Len(runs[1].rows) :
    RaceReady(i) =>
      \A first \in Sessions :
        LET second == CHOOSE r \in Sessions : r # first
            one == write_sheet(variant, sheets, runs[first], now).sheets
            both == write_sheet(variant, one, runs[second], now).sheets
            key == ProgressKey(sheets, runs[1].rows[i])
        IN KeyCount(Master(both), key) >= KeyCount(Master(sheets), key) + 2

\* both runs are over, and master holds two rows with the key of the one
\* progress row there is
C17_Witness ==
  /\ \A r \in Sessions : runs[r].pc = "idle"
  /\ RowCount(sheets, progress_sheets) = 1
  /\ Len(Master(sheets)) = 2
  /\ MasterKey(Master(sheets)[1]) = MasterKey(Master(sheets)[2])
  /\ \E p \in Positions(sheets) :
       /\ Synced(RowAt(sheets, p))
       /\ ProgressKey(sheets, RowAt(sheets, p)) = MasterKey(Master(sheets)[1])

\* C18: a merge run neither flags nor merges a progress row that was appended
\* after the run began: its write leaves every such row as it is and appends
\* no more master rows than it read unflagged rows that were there at its start.
C18_SnapshotRead ==
  [][\A r \in Sessions :
       MergeWrite(r) =>
         LET title == progress_sheets[runs[r].k]
             at_begin == runs[r].rows_at_begin[title]
             early == {i \in 1..Len(runs[r].rows) :
                         /\ i <= at_begin
                         /\ WellFormed(runs[r].rows[i])
                         /\ ~Synced(runs[r].rows[i])}
         IN /\ \A i \in 1..Len(sheets[title]) :
                 i > at_begin => sheets'[title][i] = sheets[title][i]
            /\ Cardinality(Appended) <= Cardinality(early)]_vars

UpperCase == "ABCDEFGHIJKLMNOPQRSTUVWXYZ"
LowerCase == "abcdefghijklmnopqrstuvwxyz"

\* a text with its capital letters made small
RECURSIVE Lower(_)
Lower(text) ==
  IF Len(text) = 0 THEN ""
  ELSE LET c == SubSeq(text, 1, 1)
           at == {n \in 1..Len(UpperCase) : SubSeq(UpperCase, n, n) = c}
       IN (IF at = {} THEN c ELSE SubSeq(LowerCase, MaxOf(at), MaxOf(at)))
            \o Lower(SubSeq(text, 2, Len(text)))

\* the flag cell says synced: "1" or "true" in any letter case
SyncedAnyCase(row) == Lower(row[7]) \in {"1", "true"}

\* the workbook with every flag cell written as "1" (synced) or "0" (not)
Normalised(sh) ==
  [title \in DOMAIN sh |->
     IF title \in ProgressTitles
     THEN [i \in 1..Len(sh[title]) |->
             IF WellFormed(sh[title][i])
             THEN [sh[title][i] EXCEPT ![7] = IF SyncedAnyCase(sh[title][i]) THEN "1" ELSE "0"]
             ELSE sh[title][i]]
     ELSE sh[title]]

\* C19: a merge passes over every complete row whose flag cell is "1" or
\* "true" in any letter case (no master row for it, the cell left as it is) and
\* treats every other flag value as "0": master ends as after a merge of the
\* workbook with the flags written as "1" and "0", and the rows that merge
\* flags are flagged.
C19_FlagRecognition ==
  [][Merge =>
       LET norm == merge_weekly_to_master(variant, Normalised(sheets), now)
       IN /\ Master(sheets') = Master(norm)
          /\ \A p \in Positions(sheets) :
               LET row == RowAt(sheets, p)
               IN WellFormed(row) =>
                    IF SyncedAnyCase(row) THEN RowAt(sheets', p) = row
                    ELSE RowAt(sheets', p) =
                           [row EXCEPT ![7] = IF RowAt(norm, p)[7] = "1" THEN "1" ELSE row[7]]]_vars

\* the batch ids that Batches lists, the center names that Centers lists
ListedBatches(sh) ==
  {sh[SHEET_BATCHES][i][3] : i \in {k \in 1..Len(sh[SHEET_BATCHES]) : Len(sh[SHEET_BATCHES][k]) >= 3}}

ListedCenters(sh) ==
  {sh[SHEET_CENTERS][i][3] : i \in {k \in 1..Len(sh[SHEET_CENTERS]) : Len(sh[SHEET_CENTERS][k]) >= 3}}

\* C20: a complete unflagged row whose batch is not in Batches, or whose center
\* is not in Centers, is merged all the same: after the merge it is flagged
\* "1" and master holds a row [_, country, center, batch, subject, _, _, week]
\* for it, with "Unknown Center" and "Unknown Country" in place of what the
\* lookups miss.
C20_LookupMiss ==
  [][Merge =>
       \A p \in Positions(sheets) :
         LET row == RowAt(sheets, p)
             center == IF row[2] \in ListedBatches(sheets)
                       THEN batch_to_center(sheets, row[2]) ELSE "Unknown Center"
             country == IF center \in ListedCenters(sheets)
                        THEN center_to_country(sheets, center) ELSE "Unknown Country"
         IN (/\ WellFormed(row)
             /\ ~Synced(row)
             /\ row[2] \notin ListedBatches(sheets) \/ center \notin ListedCenters(sheets))
            => /\ RowAt(sheets', p)[7] = "1"
               /\ \E j \in 1..Len(Master(sheets')) :
                    /\ Len(Master(sheets')[j]) = 8
                    /\ Master(sheets')[j][2] = country
                    /\ MasterKey(Master(sheets')[j]) = <<center, row[2], row[3], row[6]>>]_vars

-----------------------------------------------------------------------------
(* C21..C27 *)

\* the complete unflagged progress rows with the key of the row at p
SameKey(sh, p) ==
  {q \in Positions(sh) :
     /\ WellFormed(RowAt(sh, q))
     /\ ~Synced(RowAt(sh, q))
     /\ ProgressKey(sh, RowAt(sh, q)) = ProgressKey(sh, RowAt(sh, p))}

\* C21: when complete unflagged rows, in one sheet or several, share a key that
\* master does not hold, one merge appends exactly one master row with that
\* key, built from the first of them in reading order, and flags them all.
C21_FirstOccurrenceWins ==
  [][Merge =>
       \A p \in Positions(sheets) :
         LET row == RowAt(sheets, p)
             key == ProgressKey(sheets, row)
             center == batch_to_center(sheets, row[2])
         IN (/\ WellFormed(row)
             /\ ~Synced(row)
             /\ key \notin MasterKeys(sheets)
             /\ \A q \in SameKey(sheets, p) : q = p \/ Before(p, q))
            => /\ Cardinality({j \in Appended : MasterKey(Master(sheets')[j]) = key}) = 1
               /\ \E j \in Appended :
                    Tail(Master(sheets')[j]) =
                      <<center_to_country(sheets, center), center>> \o SubSeq(row, 2, 6)
               /\ \A q \in SameKey(sheets, p) : RowAt(sheets', q)[7] = "1"]_vars

\* the progress rows whose flag cell a step turns into "1"
NewlyFlagged ==
  {p \in Positions(sheets) :
     /\ Len(RowAt(sheets, p)) >= 7
     /\ RowAt(sheets, p)[7] # "1"
     /\ RowAt(sheets', p)[7] = "1"}

\* C22: a merge, also one in which a store call fails for some sheet and the
\* run goes on, flags a progress row only if master then holds a row with
\* that row's key.
C22_FlagAfterMaster ==
  [][(Merge \/ MergeFaulty) =>
       \A p \in NewlyFlagged :
         ProgressKey(sheets, RowAt(sheets, p)) \in MasterKeys(sheets')]_vars

\* C23: in every step of submissions, merges and audits the master rows
\* stay as they are, in place, with new rows only after them; no progress row
\* disappears or has one of its first six cells changed; and a flag cell
\* changes only from a value the merge reads as not synced to "1", so it
\* changes at most once and never back.
C23_AppendOnlyMonotone ==
  [][/\ Len(Master(sheets')) >= Len(Master(sheets))
     /\ SubSeq(Master(sheets'), 1, Len(Master(sheets))) = Master(sheets)
     /\ \A title \in ProgressTitles :
          /\ Len(sheets'[title]) >= Len(sheets[title])
          /\ \A i \in 1..Len(sheets[title]) :
               LET old == sheets[title][i]
                   new == sheets'[title][i]
               IN \/ new = old
                  \/ /\ WellFormed(old)
                     /\ ~IsSyncedFlag(old[7])
                     /\ new = [old EXCEPT ![7] = "1"]]_vars

\* an audit after a merge and a later submission: master holds a row, one
\* progress row is flagged and another still waits
C23_Witness ==
  /\ lastOp = "audit"
  /\ Len(Master(sheets)) >= 1
  /\ \E p \in Positions(sheets) : WellFormed(RowAt(sheets, p)) /\ RowAt(sheets, p)[7] = "1"
  /\ \E p \in Positions(sheets) : WellFormed(RowAt(sheets, p)) /\ RowAt(sheets, p)[7] = "0"

\* the sheets named as sources: "<Center>_Progress", the master sheet apart
SourceTitles ==
  {title \in Titles : EndsWith(title, "_Progress") /\ title # "Central_Weekly_Progress"}

\* C24: a merge reads exactly the sheets whose title ends with "_Progress",
\* the master sheet apart: every row added to master is built from a complete
\* unflagged row of such a sheet, the rows master held keep every cell, the
\* sheets without the suffix are left as they were, and a merge that starts
\* with master empty leaves every complete row of every such sheet flagged.
C24_SourceSelection ==
  [][Merge =>
       /\ \A title \in Titles \ SourceTitles :
            title # "Central_Weekly_Progress" => sheets'[title] = sheets[title]
       /\ SubSeq(Master(sheets'), 1, Len(Master(sheets))) = Master(sheets)
       /\ \A j \in Appended :
            \E title \in SourceTitles : \E i \in 1..Len(sheets[title]) :
              LET row == sheets[title][i]
                  center == batch_to_center(sheets, row[2])
              IN /\ WellFormed(row)
                 /\ ~IsSyncedFlag(row[7])
                 /\ Tail(Master(sheets')[j]) =
                      <<center_to_country(sheets, center), center>> \o SubSeq(row, 2, 6)
       /\ Len(Master(sheets)) = 0 =>
            \A title \in SourceTitles : \A i \in 1..Len(sheets[title]) :
              WellFormed(sheets[title][i]) => IsSyncedFlag(sheets'[title][i][7])]_vars

\* a merge over rows waiting in both source sheets: master filled, the
\* reference sheets and the pending mails as they were set up
C24_Witness ==
  /\ lastOp = "merge"
  /\ Len(Master(sheets)) >= 1
  /\ \A title \in SourceTitles : Len(sheets[title]) >= 1
  /\ sheets[SHEET_CENTERS] = CentersData
  /\ sheets[SHEET_BATCHES] = BatchesData
  /\ sheets["PendingEmails"] = <<>>
  /\ \A title \in SourceTitles : \A i \in 1..Len(sheets[title]) :
       WellFormed(sheets[title][i]) => IsSyncedFlag(sheets[title][i][7])

\* C25: the write of a merge run for a sheet, with submissions made between
\* its read and its write, changes a row of that sheet only if the run read
\* a complete, unflagged row at the same position, the row there is still
\* that row, and the one change is "1" in its flag cell; the other progress
\* sheets are left alone.
C25_FlagHitsRowRead ==
  [][\A r \in Sessions :
       MergeWrite(r) =>
         LET title == progress_sheets[runs[r].k]
             rows == runs[r].rows
         IN /\ \A other \in ProgressTitles \ {title} : sheets'[other] = sheets[other]
            /\ Len(sheets'[title]) = Len(sheets[title])
            /\ \A i \in 1..Len(sheets[title]) :
                 sheets'[title][i] # sheets[title][i] =>
                   /\ i <= Len(rows)
                   /\ WellFormed(rows[i])
                   /\ ~IsSyncedFlag(rows[i][7])
                   /\ SubSeq(sheets[title][i], 1, 6) = SubSeq(rows[i], 1, 6)
                   /\ sheets'[title][i] = [sheets[title][i] EXCEPT ![7] = "1"]]_vars

\* a run has just written for the first sheet, of which it had read one row;
\* a second row was submitted before that write: the first row is flagged,
\* the second is not
C25_Witness ==
  /\ lastOp = "merge_write"
  /\ runs[2].pc = "idle"
  /\ runs[1].pc = "read" /\ runs[1].k = 2
  /\ Len(runs[1].rows) = 1
  /\ ~IsSyncedFlag(runs[1].rows[1][7])
  /\ Len(sheets[progress_sheets[1]]) = 2
  /\ sheets[progress_sheets[1]][1][7] = "1"
  /\ sheets[progress_sheets[1]][2][7] = "0"

\* the handlers of the Admin page
AdminHandler ==
  Merge \/ CheckMissing_app1 \/ NotifyClick \/ Post \/ NotifyReturn \/ ClearResults \/ Logout

\* C26: in app1 the page is "Admin" only while logged_in holds; the page
\* becomes "Admin" only in a login step with the administrator's name and
\* password, which sets logged_in; Logout clears logged_in and sets the page
\* to "Home" in one step; and the merge, the audit and the notification run
\* only for a session that is logged in.
C26_AdminGate ==
  /\ [](page = "Admin" => logged_in)
  /\ [][/\ (page' = "Admin" /\ page # "Admin") =>
            (~logged_in /\ logged_in' /\ LoginNow(ADMIN_USERNAME, ADMIN_PASSWORD))
        /\ (logged_in /\ ~logged_in') => (Logout /\ page' = "Home")
        /\ (~logged_in /\ logged_in') => page' = "Admin"
        /\ ~logged_in => ~AdminHandler]_vars

\* a session that logged in, merged rows into master and logged out
C26_Witness ==
  /\ page = "Home"
  /\ ~logged_in
  /\ lastOp \in {"merge", "remerge"}
  /\ Len(Master(sheets)) >= 1

\* a reset of the audit result: the check button or the Clear Results button
Reset == CheckMissing_app1 \/ ClearResults

\* C27: in app1 a Notify click is served only for a batch that is not in
\* notified_batches and while no other notification is under way; when the
\* handler ends the batch is in notified_batches with its time in
\* last_notified_time; a batch leaves notified_batches only by a reset, and
\* a reset empties notified_batches and last_notified_time together.  So
\* between two resets notify_via_gas is called at most once per batch.
C27_NotifyOnce ==
  /\ [](DOMAIN last_notified_time = notified_batches)
  /\ [][/\ NotifyClick => (call.pc = "idle" /\ call'.batch_id \notin notified_batches)
        /\ NotifyReturn =>
             /\ call.batch_id \in notified_batches'
             /\ notified_batches \subseteq notified_batches'
             /\ last_notified_time'[call.batch_id] = now
        /\ Reset => (notified_batches' = {} /\ last_notified_time' = NoTimes)
        /\ ~(notified_batches \subseteq notified_batches') => Reset
        /\ call.pc # "idle" => call.batch_id \notin notified_batches]_vars

\* a batch was notified, the audit result was reset, and the same batch has
\* been notified again: two pending mails for it, and it is marked notified
C27_Witness ==
  /\ lastOp = "notify"
  /\ Len(sheets["PendingEmails"]) = 2
  /\ sheets["PendingEmails"][1][4] = sheets["PendingEmails"][2][4]
  /\ sheets["PendingEmails"][2][4] \in notified_batches
  /\ call.pc = "idle"

====
